---- MODULE Spec2Model ----
(***************************************************************************)
(* Model of SQLMonitor (src/src/db_monitor.py): the per-database scans     *)
(* analyze_indexes, get_unused_indexes and get_duplicate_indexes, the      *)
(* database enumeration get_user_databases, and the connection handling of *)
(* analyze_execution_plan.  Every statement sent to the server may succeed *)
(* or fail; a failed statement raises in the Python code.                  *)
(***************************************************************************)
EXTENDS Integers, Sequences, FiniteSets, TLC

\* ---- bounds of the model ------------------------------------------------
MaxDbs == 2       \* longest list the enumeration returns
MaxRows == 1      \* most rows one per-database query returns

\* Connections the engine's pool ever holds.  The callers are single
\* threaded, and the pool opens a connection only when none is idle: the
\* most that are checked out at once are a scan's `conn` and the one that
\* pd.read_sql(query, self.engine) takes inside get_user_databases.
NumConns == 2

\* ---- the server --------------------------------------------------------
Master == "master"
UserDatabases == {"db1", "db2", "db3"}
None == "None"

\* SQLMonitor's three per-database scans; they share one loop structure.
Scans == {"analyze_indexes", "get_unused_indexes", "get_duplicate_indexes"}
PlanOp == "analyze_execution_plan"

VARIABLES
    op,          \* the SQLMonitor method being executed, or "none"
    pc,          \* position inside that method
    pool,        \* pool[c]: active database of pooled connection c
    conn,        \* the connection `conn` of the running method, 0 = none
    dbs,         \* the list get_user_databases() returned to the loop
    i,           \* 1-based position of the for loop in dbs
    exc,         \* the statement whose exception is being handled
    results,     \* the list `results` of per-database frames
    errors,      \* what self.logger.error has recorded in this call
    stmts,       \* statements executed on `conn` in this call
    enumFailed,  \* get_user_databases() went through its except branch
    ret,         \* the frame a scan returned
    database,    \* analyze_execution_plan's `database` argument
    planRet,     \* the (metrics, diagram path) pair it returned
    catalog,     \* sys.databases as the enumeration query of this call read it
    enumCalls,   \* calls of get_user_databases() made by the running method
    plan,        \* plan_xml: the plan document being decoded
    metrics,     \* metrics_df: the rows of the metrics query
    dot,         \* dot.body: the node and edge statements, in emission order
    step,        \* position of the decoding of plan_xml
    analysis,    \* the list _analyze_plan_metrics returned
    checks,      \* the checks _analyze_plan_metrics evaluated, in order
    expensive_queries,  \* the rows of the plan-cache query of the sweep
    report       \* the section headings display_monitoring_results printed

vars == <<op, pc, pool, conn, dbs, i, exc, results, errors, stmts,
          enumFailed, ret, database, planRet, catalog, enumCalls,
          plan, metrics, dot, step,
          analysis, checks, expensive_queries, report>>

\* The variables of the plan decoding, and the others.
decodeVars == <<plan, metrics, dot, step>>
reportVars == <<analysis, checks, expensive_queries, report>>
callVars == <<op, pc, pool, conn, dbs, i, exc, results, errors, stmts,
              enumFailed, ret, database, planRet, catalog, enumCalls>>

\* ---- helpers -----------------------------------------------------------
RECURSIVE Concat(_)
\* pd.concat(results): the frames' rows, frame after frame.
Concat(frames) ==
    IF frames = <<>> THEN <<>> ELSE Head(frames) \o Concat(Tail(frames))

\* Sequences over S without repetition, up to length n (sys.databases names
\* are unique).
DistinctSeqs(S, n) ==
    {s \in UNION {[1..k -> S] : k \in 0..n} :
        \A a, b \in 1..Len(s) : a # b => s[a] # s[b]}

\* The frame a successful pd.read_sql returns in database db: n rows, each
\* carrying DB_NAME() as DatabaseName.
Frame(db, n) == [k \in 1..n |-> [DatabaseName |-> db, row |-> k]]

\* The active database of the running method's connection.
ActiveDb == pool[conn]

\* conn.execute(sa.text("USE [target]")) on a connection whose active
\* database is cur.
ExecuteUse(cur, target, ok) == IF ok THEN target ELSE cur

UseStmt(target, ok) == [sql |-> "USE", db |-> target, ok |-> ok, rows |-> 0]
QueryStmt(db, ok, n) == [sql |-> "QUERY", db |-> db, ok |-> ok, rows |-> n]

\* ---- sys.databases ------------------------------------------------------
\* database_id of each database: 1..4 are the system databases.
DatabaseId(name) ==
    CASE name = "master" -> 1
      [] name = "db1" -> 5
      [] name = "db2" -> 6
      [] name = "db3" -> 7

\* The rows sys.databases can hold: master is online and writable, a user
\* database is online or offline, writable or read-only.
Catalogs ==
    {c \in [UserDatabases \cup {Master} ->
               [database_id : 1..7, state_desc : {"ONLINE", "OFFLINE"},
                is_read_only : {0, 1}]] :
        /\ \A n \in DOMAIN c : c[n].database_id = DatabaseId(n)
        /\ c[Master].state_desc = "ONLINE"
        /\ c[Master].is_read_only = 0}

\* Nothing read yet.
NoCatalog ==
    [n \in UserDatabases \cup {Master} |->
        [database_id |-> DatabaseId(n),
         state_desc |-> IF n = Master THEN "ONLINE" ELSE "OFFLINE",
         is_read_only |-> 0]]

\* An enumeration query that forgets the state_desc filter.
Eligible_AnyState(cat) ==
    {n \in DOMAIN cat : cat[n].database_id > 4 /\ cat[n].is_read_only = 0}

\* WHERE database_id > 4 AND state_desc = 'ONLINE' AND is_read_only = 0
Eligible(cat) ==
    {n \in DOMAIN cat :
        /\ cat[n].database_id > 4
        /\ cat[n].state_desc = "ONLINE"
        /\ cat[n].is_read_only = 0}

\* A get_user_databases that loses the first name of the answer.
EnumResult_DropFirst(names) == IF names = <<>> THEN names ELSE Tail(names)

\* return df['name'].tolist()
EnumResult(names) == names

\* A scan that runs its statements on one connection shared by all calls.
StmtConn_Shared == CHOOSE c \in 1..NumConns : c <= 1

\* The connection the statements of the running method are executed on: the
\* `conn` bound by its own with block.
StmtConn == conn

\* ---- pieces of the scan loop, one per source line ----------------------
\* A get_user_databases that answers a failure with a stale list.
EnumExceptReturn_Stale == <<"db1">>

\* get_user_databases: `return []` in the except branch.
EnumExceptReturn == <<>>

\* A get_user_databases that swallows the failure without logging it.
EnumExceptLog_Silent(errs) == errs

\* get_user_databases: self.logger.error(...) in the except branch.
EnumExceptLog(errs) ==
    Append(errs, [op |-> "get_user_databases", db |-> "sys.databases", e |-> "enum"])

\* A scan that puts each new frame in front of the earlier ones.
AppendResult_Prepend(res, df) == <<df>> \o res

\* results.append(df)
AppendResult(res, df) == Append(res, df)

\* "USE [master]" after a successful query.
ResetTarget == Master

\* An except branch that switches to the failed database again.
HandlerTarget_SameDb == dbs[i]

\* "USE [master]" in the except branch.
HandlerTarget == Master

\* self.logger.error(f"Error ... for database {db}: {e}")
LogDbError(errs, scan, db, e) == Append(errs, [op |-> scan, db |-> db, e |-> e])

\* return pd.concat(results) if results else pd.DataFrame()
ScanReturn(res) == IF res # <<>> THEN Concat(res) ELSE <<>>

\* ---- initial state -----------------------------------------------------
IdleState ==
    /\ op = "none"
    /\ pc = "idle"
    /\ pool = [c \in 1..NumConns |-> Master]
    /\ conn = 0
    /\ dbs = <<>>
    /\ i = 0
    /\ exc = "none"
    /\ results = <<>>
    /\ errors = <<>>
    /\ stmts = <<>>
    /\ enumFailed = FALSE
    /\ ret = <<>>
    /\ database = None
    /\ planRet = [metrics |-> "none", diagram |-> ""]
    /\ catalog = NoCatalog
    /\ enumCalls = 0

\* No plan document is being decoded.
NoPlan == [ns |-> FALSE, elems |-> <<>>, parent |-> <<>>]

\* Nothing has been classified, swept or reported.
NoReport ==
    /\ analysis = <<>>
    /\ checks = <<>>
    /\ expensive_queries = <<>>
    /\ report = <<>>

Init ==
    /\ IdleState
    /\ plan = NoPlan
    /\ metrics = <<>>
    /\ dot = <<>>
    /\ step = "none"
    /\ NoReport

\* A method is called: its locals start fresh.
CallLocals ==
    /\ conn' = 0
    /\ dbs' = <<>>
    /\ i' = 0
    /\ exc' = "none"
    /\ results' = <<>>
    /\ errors' = <<>>
    /\ stmts' = <<>>
    /\ enumFailed' = FALSE
    /\ ret' = <<>>
    /\ planRet' = [metrics |-> "none", diagram |-> ""]
    /\ catalog' = NoCatalog
    /\ enumCalls' = 0
    /\ UNCHANGED decodeVars
    /\ UNCHANGED reportVars

\* ---- per-database scans ------------------------------------------------
\* A caller invokes one of the scans: results = [].
CallScan ==
    /\ pc \in {"idle", "done", "raised"}
    /\ \E s \in Scans : op' = s
    /\ pc' = "connect"
    /\ database' = None
    /\ CallLocals
    /\ UNCHANGED pool

\* with self.engine.connect() as conn: the pool hands out a connection, or
\* connecting fails and the exception leaves the scan.
Connect ==
    /\ op \in Scans
    /\ pc = "connect"
    /\ \/ \E c \in 1..NumConns : conn' = c /\ pc' = "enum"
       \/ conn' = 0 /\ pc' = "raised"
    /\ UNCHANGED <<op, pool, dbs, i, exc, results, errors, stmts, enumFailed,
                   ret, database, planRet>>
    /\ UNCHANGED <<catalog, enumCalls>>
    /\ UNCHANGED decodeVars
    /\ UNCHANGED reportVars

\* for db in self.get_user_databases(): the enumeration runs once, on the
\* engine, and either returns the server's list or logs and returns [].
GetUserDatabases ==
    /\ op \in Scans
    /\ pc = "enum"
    /\ enumCalls' = enumCalls + 1
    /\ \/ \E cat \in Catalogs :
             /\ Cardinality(Eligible(cat)) <= MaxDbs
             /\ catalog' = cat
             /\ \E l \in DistinctSeqs(Eligible(cat), MaxDbs) :
                   /\ Len(l) = Cardinality(Eligible(cat))
                   /\ dbs' = EnumResult(l)
             /\ UNCHANGED <<errors, enumFailed>>
       \/ /\ dbs' = EnumExceptReturn
          /\ errors' = EnumExceptLog(errors)
          /\ enumFailed' = TRUE
          /\ catalog' = catalog
    /\ i' = 1
    /\ pc' = "loop"
    /\ UNCHANGED <<op, pool, conn, exc, results, stmts, ret, database, planRet>>
    /\ UNCHANGED decodeVars
    /\ UNCHANGED reportVars

\* The for loop takes its next database, or the list is exhausted and the
\* scan returns the concatenated frames.
LoopNext ==
    /\ op \in Scans
    /\ pc = "loop"
    /\ IF i <= Len(dbs)
       THEN pc' = "use" /\ ret' = ret
       ELSE pc' = "done" /\ ret' = ScanReturn(results)
    /\ UNCHANGED <<op, pool, conn, dbs, i, exc, results, errors, stmts,
                   enumFailed, database, planRet>>
    /\ UNCHANGED <<catalog, enumCalls>>
    /\ UNCHANGED decodeVars
    /\ UNCHANGED reportVars

\* conn.execute(sa.text(f"USE [{db}]"))
UseDb ==
    /\ op \in Scans
    /\ pc = "use"
    /\ \E ok \in BOOLEAN :
          /\ pool' = [pool EXCEPT ![StmtConn] = ExecuteUse(@, dbs[i], ok)]
          /\ stmts' = Append(stmts, UseStmt(dbs[i], ok))
          /\ pc' = IF ok THEN "query" ELSE "except"
          /\ exc' = IF ok THEN exc ELSE "use"
    /\ UNCHANGED <<op, conn, dbs, i, results, errors, enumFailed, ret,
                   database, planRet>>
    /\ UNCHANGED <<catalog, enumCalls>>
    /\ UNCHANGED decodeVars
    /\ UNCHANGED reportVars

\* df = pd.read_sql(sa.text(query), conn); results.append(df)
ReadSql ==
    /\ op \in Scans
    /\ pc = "query"
    /\ \/ \E n \in 0..MaxRows :
             /\ stmts' = Append(stmts, QueryStmt(dbs[i], TRUE, n))
             /\ results' = AppendResult(results, Frame(dbs[i], n))
             /\ pc' = "reset"
             /\ exc' = exc
       \/ /\ stmts' = Append(stmts, QueryStmt(dbs[i], FALSE, 0))
          /\ results' = results
          /\ pc' = "except"
          /\ exc' = "query"
    /\ UNCHANGED <<op, pool, conn, dbs, i, errors, enumFailed, ret, database,
                   planRet>>
    /\ UNCHANGED <<catalog, enumCalls>>
    /\ UNCHANGED decodeVars
    /\ UNCHANGED reportVars

\* conn.execute(sa.text("USE [master]")) at the end of the try body.
ResetToMaster ==
    /\ op \in Scans
    /\ pc = "reset"
    /\ \E ok \in BOOLEAN :
          /\ pool' = [pool EXCEPT ![StmtConn] = ExecuteUse(@, ResetTarget, ok)]
          /\ stmts' = Append(stmts, UseStmt(ResetTarget, ok))
          /\ pc' = IF ok THEN "loop" ELSE "except"
          /\ i' = IF ok THEN i + 1 ELSE i
          /\ exc' = IF ok THEN exc ELSE "reset"
    /\ UNCHANGED <<op, conn, dbs, results, errors, enumFailed, ret, database,
                   planRet>>
    /\ UNCHANGED <<catalog, enumCalls>>
    /\ UNCHANGED decodeVars
    /\ UNCHANGED reportVars

\* except Exception as e: log the error, then conn.execute("USE [master]").
\* That statement is not guarded: when it fails the exception leaves the
\* loop, the with block and the scan.
ExceptHandler ==
    /\ op \in Scans
    /\ pc = "except"
    /\ errors' = LogDbError(errors, op, dbs[i], exc)
    /\ \E ok \in BOOLEAN :
          /\ pool' = [pool EXCEPT ![StmtConn] = ExecuteUse(@, HandlerTarget, ok)]
          /\ stmts' = Append(stmts, UseStmt(HandlerTarget, ok))
          /\ pc' = IF ok THEN "loop" ELSE "raised"
          /\ i' = IF ok THEN i + 1 ELSE i
    /\ exc' = "none"
    /\ UNCHANGED <<op, conn, dbs, results, enumFailed, ret, database, planRet>>
    /\ UNCHANGED <<catalog, enumCalls>>
    /\ UNCHANGED decodeVars
    /\ UNCHANGED reportVars

\* ---- analyze_execution_plan ---------------------------------------------
\* return pd.DataFrame(), "" (the early return and the except branch).
PlanEmptyReturn == [metrics |-> "empty", diagram |-> ""]

\* return metrics_df, str(plan_path) + '.svg'
PlanFullReturn == [metrics |-> "rows", diagram |-> "svg"]

\* An except branch that hands back the metrics it has with no diagram.
PlanExcept_Partial(e) ==
    /\ errors' = Append(errors, [op |-> PlanOp, db |-> database, e |-> e])
    /\ planRet' = [metrics |-> "rows", diagram |-> ""]
    /\ pc' = "done"

\* except Exception as e: log and return the empty pair.  The branch issues
\* no statement on the connection.
PlanExcept(e) ==
    /\ errors' = Append(errors, [op |-> PlanOp, db |-> database, e |-> e])
    /\ planRet' = PlanEmptyReturn
    /\ pc' = "done"

\* A caller invokes analyze_execution_plan(query, database).
CallPlan ==
    /\ pc \in {"idle", "done", "raised"}
    /\ op' = PlanOp
    /\ pc' = "p_connect"
    /\ \E d \in UserDatabases \cup {None} : database' = d
    /\ CallLocals
    /\ UNCHANGED pool

\* with self.engine.connect() as conn, inside the try.
PlanConnect ==
    /\ op = PlanOp
    /\ pc = "p_connect"
    /\ \/ /\ \E c \in 1..NumConns : conn' = c
          /\ pc' = IF database # None THEN "p_use" ELSE "p_plan"
          /\ UNCHANGED <<errors, planRet>>
       \/ /\ conn' = 0
          /\ PlanExcept("connect")
    /\ UNCHANGED <<op, pool, dbs, i, exc, results, stmts, enumFailed, ret,
                   database>>
    /\ UNCHANGED <<catalog, enumCalls>>
    /\ UNCHANGED decodeVars
    /\ UNCHANGED reportVars

\* if database: conn.execute(sa.text(f"USE [{database}]"))
PlanUse ==
    /\ op = PlanOp
    /\ pc = "p_use"
    /\ \E ok \in BOOLEAN :
          /\ pool' = [pool EXCEPT ![StmtConn] = ExecuteUse(@, database, ok)]
          /\ stmts' = Append(stmts, UseStmt(database, ok))
          /\ IF ok
             THEN pc' = "p_plan" /\ UNCHANGED <<errors, planRet>>
             ELSE PlanExcept("use")
    /\ UNCHANGED <<op, conn, dbs, i, exc, results, enumFailed, ret, database>>
    /\ UNCHANGED <<catalog, enumCalls>>
    /\ UNCHANGED decodeVars
    /\ UNCHANGED reportVars

\* result = conn.execute(sa.text(plan_query)).fetchone(): the statement
\* fails, or yields no plan document (early return), or yields one.
PlanQuery ==
    /\ op = PlanOp
    /\ pc = "p_plan"
    /\ \/ /\ stmts' = Append(stmts, QueryStmt("showplan", TRUE, 1))
          /\ pc' = "p_metrics"
          /\ UNCHANGED <<errors, planRet>>
       \/ /\ stmts' = Append(stmts, QueryStmt("showplan", TRUE, 0))
          /\ planRet' = PlanEmptyReturn
          /\ pc' = "done"
          /\ UNCHANGED errors
       \/ /\ stmts' = Append(stmts, QueryStmt("showplan", FALSE, 0))
          /\ PlanExcept("plan")
    /\ UNCHANGED <<op, pool, conn, dbs, i, exc, results, enumFailed, ret,
                   database>>
    /\ UNCHANGED <<catalog, enumCalls>>
    /\ UNCHANGED decodeVars
    /\ UNCHANGED reportVars

\* metrics_df = pd.read_sql(sa.text(metrics_query), conn)
PlanMetrics ==
    /\ op = PlanOp
    /\ pc = "p_metrics"
    /\ \/ /\ stmts' = Append(stmts, QueryStmt("metrics", TRUE, 1))
          /\ pc' = IF database # None THEN "p_reset" ELSE "p_graph"
          /\ UNCHANGED <<errors, planRet>>
       \/ /\ stmts' = Append(stmts, QueryStmt("metrics", FALSE, 0))
          /\ PlanExcept("metrics")
    /\ UNCHANGED <<op, pool, conn, dbs, i, exc, results, enumFailed, ret,
                   database>>
    /\ UNCHANGED <<catalog, enumCalls>>
    /\ UNCHANGED decodeVars
    /\ UNCHANGED reportVars

\* if database: conn.execute(sa.text("USE [master]"))
PlanReset ==
    /\ op = PlanOp
    /\ pc = "p_reset"
    /\ \E ok \in BOOLEAN :
          /\ pool' = [pool EXCEPT ![StmtConn] = ExecuteUse(@, Master, ok)]
          /\ stmts' = Append(stmts, UseStmt(Master, ok))
          /\ IF ok
             THEN pc' = "p_graph" /\ UNCHANGED <<errors, planRet>>
             ELSE PlanExcept("reset")
    /\ UNCHANGED <<op, conn, dbs, i, exc, results, enumFailed, ret, database>>
    /\ UNCHANGED <<catalog, enumCalls>>
    /\ UNCHANGED decodeVars
    /\ UNCHANGED reportVars

\* add_nodes_from_xml(plan_xml, dot): ET.fromstring or float() may raise.
PlanGraph ==
    /\ op = PlanOp
    /\ pc = "p_graph"
    /\ \/ pc' = "p_render" /\ UNCHANGED <<errors, planRet>>
       \/ PlanExcept("graph")
    /\ UNCHANGED <<op, pool, conn, dbs, i, exc, results, stmts, enumFailed,
                   ret, database>>
    /\ UNCHANGED <<catalog, enumCalls>>
    /\ UNCHANGED decodeVars
    /\ UNCHANGED reportVars

\* dot.render(plan_path, cleanup=True); return metrics_df, path
PlanRender ==
    /\ op = PlanOp
    /\ pc = "p_render"
    /\ \/ /\ planRet' = PlanFullReturn
          /\ pc' = "done"
          /\ UNCHANGED errors
       \/ PlanExcept("render")
    /\ UNCHANGED <<op, pool, conn, dbs, i, exc, results, stmts, enumFailed,
                   ret, database>>
    /\ UNCHANGED <<catalog, enumCalls>>
    /\ UNCHANGED decodeVars
    /\ UNCHANGED reportVars

\* ---- Ctrl-C ------------------------------------------------------------
\* KeyboardInterrupt is raised in the main thread wherever the interpreter
\* is.  It is not an Exception, so no except branch of SQLMonitor catches
\* it: it leaves the method (the with block releases the connection) and
\* reaches main(), which prints a message and ends the program.  Inside
\* pd.read_sql it arrives after the statement was sent and before the frame
\* is returned.
Interrupt ==
    /\ pc \notin {"idle", "done", "raised", "interrupted"}
    /\ pc' = "interrupted"
    /\ \/ stmts' = stmts
       \/ /\ op \in Scans
          /\ pc = "query"
          /\ stmts' = Append(stmts, [sql |-> "QUERY_INTERRUPTED", db |-> dbs[i],
                                     ok |-> FALSE, rows |-> 0])
    /\ UNCHANGED <<op, pool, conn, dbs, i, exc, results, errors, enumFailed,
                   ret, database, planRet, catalog, enumCalls>>
    /\ UNCHANGED decodeVars
    /\ UNCHANGED reportVars

Next ==
    \/ CallScan
    \/ Connect
    \/ GetUserDatabases
    \/ LoopNext
    \/ UseDb
    \/ ReadSql
    \/ ResetToMaster
    \/ ExceptHandler
    \/ CallPlan
    \/ PlanConnect
    \/ PlanUse
    \/ PlanQuery
    \/ PlanMetrics
    \/ PlanReset
    \/ PlanGraph
    \/ PlanRender
    \/ Interrupt

Spec == Init /\ [][Next]_vars

\* ---- decoding of a plan document (analyze_execution_plan, 539-595) ------
\* Largest number of elements below the ShowPlanXML root of a document.
MaxElems == 3

\* Costs are counted in hundredths: 10 is 1000 and 1 is 100.
HighCost == 1000
MediumCost == 100

\* An attribute is <<>> when the element does not carry it, <<v>> otherwise;
\* a column of a metrics row is <<>> when it is NULL.
RelOpAttrs ==
    {[cost |-> <<>>, rows |-> <<>>],
     [cost |-> <<MediumCost>>, rows |-> <<7>>],
     [cost |-> <<MediumCost + 1>>, rows |-> <<7>>],
     [cost |-> <<HighCost>>, rows |-> <<>>],
     [cost |-> <<HighCost + 1>>, rows |-> <<7>>]}

\* The elements of a document: operators (RelOp) and other elements.
Elements ==
    {[tag |-> "RelOp", cost |-> a.cost, rows |-> a.rows] : a \in RelOpAttrs}
    \cup {[tag |-> "Other", cost |-> <<>>, rows |-> <<>>]}

\* The chain of elements above element e (0 is the ShowPlanXML root).
RECURSIVE Ancestors(_, _)
Ancestors(parent, e) ==
    IF e = 0 THEN {} ELSE {parent[e]} \cup Ancestors(parent, parent[e])

\* The well-formed documents of n elements, numbered in document order:
\* an element opens inside the previous element or inside one of the
\* elements still open. ns tells whether the document declares the
\* showplan namespace as its default namespace.
PlanDocuments(n) ==
    {d \in [ns : BOOLEAN, elems : [1..n -> Elements], parent : [1..n -> 0..n]] :
        \A e \in 1..n :
            /\ d.parent[e] < e
            /\ e > 1 => d.parent[e] \in {e - 1} \cup Ancestors(d.parent, e - 1)}

\* The elements of a set of positions, in document order.
RECURSIVE InOrder(_)
InOrder(S) ==
    IF S = {} THEN <<>>
    ELSE LET e == CHOOSE x \in S : \A y \in S : x <= y
         IN  <<e>> \o InOrder(S \ {e})

\* The operators of the document.
RelOps(d) == {e \in DOMAIN d.elems : d.elems[e].tag = "RelOp"}

\* The operators below element e, at any depth.
RelOpsBelow(d, e) == {c \in RelOps(d) : e \in Ancestors(d.parent, c)}

\* n.value('(@attr)', 'float'): NULL when the attribute is absent.
XmlValue(attr) == attr

\* The metrics query: nodes('//RelOp') under the default showplan
\* namespace yields one row per operator of that namespace, in document
\* order. elem is the element the row was read from (not a column).
MetricsRow(d, e) ==
    [elem |-> e,
     Operation |-> "PhysicalOp",
     EstimatedCost |-> XmlValue(d.elems[e].cost),
     EstimatedRows |-> XmlValue(d.elems[e].rows)]

MetricsQuery(d) ==
    IF d.ns
    THEN [k \in 1..Cardinality(RelOps(d)) |-> MetricsRow(d, InOrder(RelOps(d))[k])]
    ELSE <<>>

\* node.findall('.//RelOp'): the descendants of e whose tag is the
\* unqualified name RelOp, in document order; in a document of the
\* showplan namespace every tag is qualified and none matches.
FindAll(d, e) == IF d.ns THEN <<>> ELSE InOrder(RelOpsBelow(d, e))

\* node.get(attr, '0')
NodeGet(attr) == IF attr = <<>> THEN 0 ELSE attr[1]

\* str(hash(str(node))): str(node) names the element object by its address.
NodeId_ByLabel(d, e) == <<"Element", NodeGet(d.elems[e].rows), NodeGet(d.elems[e].cost)>>
NodeId(d, e) == <<"Element", e>>

\* The colour given to a node: red (high), orange (medium) or none (normal).
CostTier_Inclusive(cost) ==
    IF cost >= HighCost THEN "high"
    ELSE IF cost >= MediumCost THEN "medium"
    ELSE "normal"
CostTier(cost) ==
    IF cost > HighCost THEN "high"
    ELSE IF cost > MediumCost THEN "medium"
    ELSE "normal"

\* dot.node(node_id, label, ...); elem is the element it was made from.
NodeStmt(d, e) ==
    [kind |-> "node", elem |-> e, id |-> NodeId(d, e),
     op_type |-> "PhysicalOp",
     est_rows |-> NodeGet(d.elems[e].rows),
     est_cost |-> NodeGet(d.elems[e].cost),
     tier |-> CostTier(NodeGet(d.elems[e].cost))]

\* dot.edge(parent_id, node_id)
EdgeStmt(from, to) == [kind |-> "edge", from |-> from, to |-> to]

NoParent == <<>>

\* process_node(node, parent_id) and its loop over node.findall.
RECURSIVE process_node(_, _, _), ProcessAll(_, _, _)
process_node(d, e, parent_id) ==
    <<NodeStmt(d, e)>>
    \o (IF parent_id # NoParent THEN <<EdgeStmt(parent_id, NodeId(d, e))>> ELSE <<>>)
    \o ProcessAll(d, FindAll(d, e), NodeId(d, e))

ProcessAll(d, nodes, parent_id) ==
    IF nodes = <<>> THEN <<>>
    ELSE process_node(d, Head(nodes), parent_id) \o ProcessAll(d, Tail(nodes), parent_id)

\* add_nodes_from_xml(plan_xml, dot)
add_nodes_from_xml(d) == ProcessAll(d, FindAll(d, 0), NoParent)

\* A plan document has been fetched (line 533).
PlanInit ==
    /\ IdleState
    /\ \E n \in 1..MaxElems : plan \in PlanDocuments(n)
    /\ metrics = <<>>
    /\ dot = <<>>
    /\ step = "fetched"
    /\ NoReport

\* metrics_df = pd.read_sql(metrics_query) (line 554)
MetricsDecode ==
    /\ step = "fetched"
    /\ metrics' = MetricsQuery(plan)
    /\ step' = "metrics"
    /\ UNCHANGED <<plan, dot>>
    /\ UNCHANGED callVars
    /\ UNCHANGED reportVars

\* dot = graphviz.Digraph(...); dot.attr(rankdir='TB'): every call starts
\* from a new graph holding the rankdir statement only.
NewDigraph_Reused == dot
NewDigraph == <<[kind |-> "attr", name |-> "rankdir"]>>

\* ET.fromstring(xml_str) in a later call parses the text again: the
\* element objects are new ones, at the same or at other addresses, and
\* str(node) differs accordingly.
AtAddress(body, base) ==
    [k \in 1..Len(body) |->
        IF body[k].kind = "node"
        THEN [body[k] EXCEPT !.id = <<"Element", @[2] + base>>]
        ELSE [body[k] EXCEPT !.from = <<"Element", @[2] + base>>,
                             !.to = <<"Element", @[2] + base>>]]

\* add_nodes_from_xml(plan_xml, dot) (line 595)
GraphBuild ==
    /\ step = "metrics"
    /\ dot' = NewDigraph \o add_nodes_from_xml(plan)
    /\ step' = "built"
    /\ UNCHANGED <<plan, metrics>>
    /\ UNCHANGED callVars
    /\ UNCHANGED reportVars

\* A second call for the same query, which gets the same plan_xml: the
\* graph is built again (lines 561-595).
GraphRebuild ==
    /\ step = "built"
    /\ \E base \in {0, MaxElems} :
          dot' = NewDigraph \o AtAddress(add_nodes_from_xml(plan), base)
    /\ step' = "rebuilt"
    /\ UNCHANGED <<plan, metrics>>
    /\ UNCHANGED callVars
    /\ UNCHANGED reportVars

PlanNext ==
    \/ MetricsDecode
    \/ GraphBuild
    \/ GraphRebuild

PlanSpec == PlanInit /\ [][PlanNext]_vars

\* ---- _analyze_plan_metrics (651-679) -------------------------------------
\* Most rows of a metrics table handed to the classifier.
MaxTableRows == 2

\* The thresholds of the checks: cost above 1 (in hundredths), parallel
\* cost above 0, rows above 10000.
ExpensiveCost == 100
ParallelFloor == 0
LargeRows == 10000

\* The rows a metrics table can hold: a NULL column is <<>>.
MetricsRows ==
    [Operation : {"Hash Match"},
     EstimatedCost : {<<>>, <<ExpensiveCost>>, <<ExpensiveCost + 1>>, <<1500>>},
     MissingStats : {"None", "Columns"},
     ParallelCost : {<<>>, <<ParallelFloor>>, <<5>>},
     EstimatedRows : {<<LargeRows>>, <<LargeRows + 1>>}]

MetricsTables == UNION {[1..n -> MetricsRows] : n \in 0..MaxTableRows}

\* f"{cost:.2f}" of a cost given in hundredths: the integer part and the
\* two decimal digits.
Format2f(c) == <<c \div 100, (c % 100) \div 10, c % 10>>

\* column > threshold: false for a NULL (NaN).
GreaterThan(col, threshold) == col # <<>> /\ col[1] > threshold

\* metrics_df['EstimatedCost'] > 1
IsExpensive_Inclusive(row) == row.EstimatedCost # <<>> /\ row.EstimatedCost[1] >= ExpensiveCost
IsExpensive(row) == GreaterThan(row.EstimatedCost, ExpensiveCost)

\* metrics_df['MissingStats'] != 'None'
HasMissingStats(row) == row.MissingStats # "None"

\* ParallelCost.notna() & (ParallelCost > 0)
IsParallel(row) == row.ParallelCost # <<>> /\ GreaterThan(row.ParallelCost, ParallelFloor)

\* metrics_df['EstimatedRows'] > 10000
HasLargeRows(row) == GreaterThan(row.EstimatedRows, LargeRows)

\* The findings.
Unable == [text |-> "Unable to analyze execution plan metrics"]
ExpensiveFinding(row) ==
    [text |-> "Expensive operation found", Operation |-> row.Operation,
     Cost |-> Format2f(row.EstimatedCost[1])]
MissingStatsFinding == [text |-> "Missing statistics detected"]
ParallelFinding == [text |-> "Query uses parallel execution"]
LargeRowsFinding == [text |-> "Large number of rows being processed"]

\* if metrics_df.empty: return [...]
EmptyAnalysis_Nothing == <<>>
EmptyAnalysis == <<Unable>>

\* for _, op in expensive_ops.iterrows(): analysis.append(...)
ExpensiveFindings(df) ==
    LET q == SelectSeq(df, IsExpensive)
    IN  [k \in 1..Len(q) |-> ExpensiveFinding(q[k])]

\* if not <filtered>.empty: analysis.append(<finding>)
Summary(filtered, finding) ==
    IF filtered # <<>> THEN <<finding>> ELSE <<>>

\* The order in which the four checks append to analysis.
AnalysisOrder_StatsFirst(expensive, stats, parallel, rows) ==
    stats \o expensive \o parallel \o rows
AnalysisOrder(expensive, stats, parallel, rows) ==
    expensive \o stats \o parallel \o rows

\* _analyze_plan_metrics(metrics_df): the list returned, and the checks
\* evaluated on the way.
analyze_plan_metrics(df) ==
    IF df = <<>>
    THEN [analysis |-> EmptyAnalysis, checks |-> <<>>]
    ELSE [analysis |-> AnalysisOrder(ExpensiveFindings(df),
                                      Summary(SelectSeq(df, HasMissingStats), MissingStatsFinding),
                                      Summary(SelectSeq(df, IsParallel), ParallelFinding),
                                      Summary(SelectSeq(df, HasLargeRows), LargeRowsFinding)),
          checks |-> <<"expensive", "missing_stats", "parallel", "large_rows">>]

\* A metrics table is handed to the classifier.
ClassifyInit ==
    /\ IdleState
    /\ plan = NoPlan
    /\ dot = <<>>
    /\ step = "metrics_df"
    /\ metrics \in MetricsTables
    /\ NoReport

\* analysis = self._analyze_plan_metrics(metrics_df)
AnalyzePlanMetrics ==
    /\ step = "metrics_df"
    /\ analysis' = analyze_plan_metrics(metrics).analysis
    /\ checks' = analyze_plan_metrics(metrics).checks
    /\ step' = "analysed"
    /\ UNCHANGED <<plan, metrics, dot, expensive_queries, report>>
    /\ UNCHANGED callVars

ClassifyNext ==
    \/ AnalyzePlanMetrics

ClassifySpec == ClassifyInit /\ [][ClassifyNext]_vars

\* ---- analyze_expensive_queries_with_plans (608-649) ---------------------
\* Most rows the plan-cache query returns.
MaxQueries == 2

SweepOp == "analyze_expensive_queries_with_plans"
QueryTexts == {"q1", "q2", "q3"}

\* What analyze_execution_plan(text) hands back: (empty frame, "") from
\* its early return and from its except branch, (metrics_df, path) otherwise.
CheapRow ==
    [Operation |-> "Hash Match", EstimatedCost |-> <<ExpensiveCost>>,
     MissingStats |-> "None", ParallelCost |-> <<>>, EstimatedRows |-> <<LargeRows>>]
CostlyRow == [CheapRow EXCEPT !.EstimatedCost = <<1500>>]
PlanUnavailable == [metrics_df |-> <<>>, plan_path |-> ""]
PlanAvailable ==
    {[metrics_df |-> t, plan_path |-> "svg"] : t \in {<<>>, <<CheapRow>>, <<CostlyRow>>}}

\* results.append({...}) for one row of expensive_queries.
SweepEntry(row, out) ==
    [query_text |-> row.query_text,
     execution_count |-> row.execution_count,
     metrics |-> out.metrics_df,
     plan_diagram |-> out.plan_path,
     analysis |-> analyze_plan_metrics(out.metrics_df).analysis]

\* for _, row in expensive_queries.iterrows(): the row after row k.
NextRow_StopOnFailure(out, k) ==
    IF out.plan_path = "" THEN Len(expensive_queries) + 1 ELSE k + 1
NextRow(out, k) == k + 1

\* The variables the sweep leaves alone.
sweepIdle == <<pool, conn, dbs, exc, stmts, enumFailed, database, planRet,
               catalog, enumCalls, analysis, checks, report>>

\* results = []
CallSweep ==
    /\ pc \in {"idle", "done"}
    /\ op' = SweepOp
    /\ pc' = "s_query"
    /\ i' = 0
    /\ results' = <<>>
    /\ errors' = <<>>
    /\ ret' = <<>>
    /\ expensive_queries' = <<>>
    /\ UNCHANGED sweepIdle
    /\ UNCHANGED decodeVars

\* expensive_queries = pd.read_sql(query, self.engine), or the except
\* branch: log and return [].
SweepQuery ==
    /\ op = SweepOp
    /\ pc = "s_query"
    /\ \/ /\ \E l \in DistinctSeqs(QueryTexts, MaxQueries) :
                expensive_queries' =
                    [k \in 1..Len(l) |-> [query_text |-> l[k], execution_count |-> k]]
          /\ i' = 1
          /\ pc' = "s_loop"
          /\ UNCHANGED <<errors, ret>>
       \/ /\ errors' = Append(errors, [op |-> SweepOp, db |-> "plan cache", e |-> "query"])
          /\ ret' = <<>>
          /\ pc' = "done"
          /\ UNCHANGED <<expensive_queries, i>>
    /\ UNCHANGED <<op, results>>
    /\ UNCHANGED sweepIdle
    /\ UNCHANGED decodeVars

\* One iteration: analyze_execution_plan(row['query_text']) returns, its
\* failure logged by its own except branch, and the entry is appended.
SweepAnalyze ==
    /\ op = SweepOp
    /\ pc = "s_loop"
    /\ i <= Len(expensive_queries)
    /\ \E out \in {PlanUnavailable} \cup PlanAvailable :
          /\ \/ errors' = errors
             \/ /\ out = PlanUnavailable
                /\ errors' = Append(errors, [op |-> PlanOp,
                                             db |-> expensive_queries[i].query_text,
                                             e |-> "plan"])
          /\ results' = Append(results, SweepEntry(expensive_queries[i], out))
          /\ i' = NextRow(out, i)
    /\ UNCHANGED <<op, pc, ret, expensive_queries>>
    /\ UNCHANGED sweepIdle
    /\ UNCHANGED decodeVars

\* return results
SweepReturn ==
    /\ op = SweepOp
    /\ pc = "s_loop"
    /\ i > Len(expensive_queries)
    /\ ret' = results
    /\ pc' = "done"
    /\ UNCHANGED <<op, i, results, errors, expensive_queries>>
    /\ UNCHANGED sweepIdle
    /\ UNCHANGED decodeVars

SweepNext ==
    \/ CallSweep
    \/ SweepQuery
    \/ SweepAnalyze
    \/ SweepReturn

SweepSpec == Init /\ [][SweepNext]_vars

\* ---- display_monitoring_results (681-841) --------------------------------
ReportOp == "display_monitoring_results"

\* The sections, in source order, by the method each one calls.
Sections ==
    <<"analyze_resource_intensive_queries", "analyze_memory_usage",
      "analyze_io_performance", "analyze_network_stats", "analyze_indexes",
      "get_duplicate_indexes", "get_missing_indexes", "get_unused_indexes",
      "get_long_running_queries", "analyze_blocking", "get_deadlocks",
      "analyze_expensive_queries_with_plans">>

\* What a section's method can do: return rows, return nothing, fail
\* inside its own try (logged, nothing returned) and, for the per-database
\* scans, raise: engine.connect() is outside their try and the USE [master]
\* of their except branch is unguarded.
SectionOutcomes(method) ==
    {"rows", "empty", "failed"} \cup (IF method \in Scans THEN {"raised"} ELSE {})

\* if not <frame>.empty: self.console.print(<heading>) ...
Printed(out, method) == IF out = "rows" THEN <<method>> ELSE <<>>

reportIdle == <<pool, conn, dbs, exc, results, stmts, enumFailed, ret,
                database, planRet, catalog, enumCalls, analysis, checks,
                expensive_queries>>

\* monitor.display_monitoring_results()
CallReport ==
    /\ pc \in {"idle", "done"}
    /\ op' = ReportOp
    /\ pc' = "r_section"
    /\ i' = 1
    /\ errors' = <<>>
    /\ report' = <<>>
    /\ UNCHANGED reportIdle
    /\ UNCHANGED decodeVars

\* One section: the method is called and its result printed when not
\* empty; an exception the method lets out leaves the report.
RunSection ==
    /\ op = ReportOp
    /\ pc = "r_section"
    /\ i <= Len(Sections)
    /\ \E out \in SectionOutcomes(Sections[i]) :
          /\ report' = report \o Printed(out, Sections[i])
          /\ errors' = IF out = "failed"
                       THEN Append(errors, [op |-> Sections[i], db |-> "server", e |-> "query"])
                       ELSE errors
          /\ pc' = IF out = "raised" THEN "raised" ELSE pc
          /\ i' = IF out = "raised" THEN i ELSE i + 1
    /\ UNCHANGED op
    /\ UNCHANGED reportIdle
    /\ UNCHANGED decodeVars

\* The last section is done: the method returns.
ReportReturn ==
    /\ op = ReportOp
    /\ pc = "r_section"
    /\ i > Len(Sections)
    /\ pc' = "done"
    /\ UNCHANGED <<op, i, errors, report>>
    /\ UNCHANGED reportIdle
    /\ UNCHANGED decodeVars

ReportNext ==
    \/ CallReport
    \/ RunSection
    \/ ReportReturn

ReportSpec == Init /\ [][ReportNext]_vars

\* ---- vocabulary of the properties ---------------------------------------
\* A scan that got its connection and has returned or raised.
ScanEnded == op \in Scans /\ conn # 0 /\ pc \in {"done", "raised"}

\* The loop has finished at least one database's iteration and moved on.
IterationDone == op \in Scans /\ pc \in {"loop", "done"} /\ i > 1

\* An exception left the loop from inside a database's iteration.
RaisedInLoop == op \in Scans /\ conn # 0 /\ pc = "raised"

Range(f) == {f[k] : k \in DOMAIN f}

IsUserUse(st) == st.sql = "USE" /\ st.db # Master
IsOkQuery(st) == st.sql = "QUERY" /\ st.ok
IsFailedSwitchBack(st) == st.sql = "USE" /\ st.db = Master /\ ~st.ok

\* F: the databases whose USE [db] or query failed in this scan.
FailedDbs == {st.db : st \in {t \in Range(stmts) : t.db # Master /\ ~t.ok}}

\* The databases whose query returned a frame.
QueriedDbs == {st.db : st \in {t \in Range(stmts) : IsOkQuery(t)}}

\* The databases the log names, in log order.
ErrorDbs == [k \in 1..Len(errors) |-> errors[k].db]

\* The frames of the successful queries, in statement order.
OkFrames ==
    LET q == SelectSeq(stmts, IsOkQuery)
    IN  [k \in 1..Len(q) |-> Frame(q[k].db, q[k].rows)]

RECURSIVE SumRows(_)
SumRows(q) == IF q = <<>> THEN 0 ELSE Head(q).rows + SumRows(Tail(q))

\* Position of database d in the enumerated list.
Pos(d) == CHOOSE k \in 1..Len(dbs) : dbs[k] = d

C2_Claim == (op \in Scans /\ conn # 0) => pc # "raised"

\* ---- C3 ----------------------------------------------------------------
\* C3: when a scan ends, it has returned; it has recorded exactly one error
\* for each database whose USE or query failed and none for any other; and
\* the combined result is exactly the rows of the other databases.
C3_Claim ==
    (ScanEnded /\ ~enumFailed) =>
        /\ pc = "done"
        /\ Len(errors) = Cardinality(FailedDbs)
        /\ Range(ErrorDbs) = FailedDbs
        /\ ret = Concat(OkFrames)

\* ---- C4 ----------------------------------------------------------------
\* C4: on a non-empty list where every database's query succeeded, the scan
\* returns as many rows as the queries returned together and records no
\* error.
C4_Claim ==
    (ScanEnded /\ dbs # <<>> /\ Range(dbs) = QueriedDbs) =>
        /\ pc = "done"
        /\ Len(ret) = SumRows(SelectSeq(stmts, IsOkQuery))
        /\ errors = <<>>

\* ---- C5 ----------------------------------------------------------------
\* C5: when the USE or the query failed for every database of a non-empty
\* list, the scan returns (it does not raise) an empty result and has
\* recorded one error per database, covering the list.
C5_Claim ==
    (ScanEnded /\ dbs # <<>> /\ Range(dbs) = FailedDbs) =>
        /\ pc = "done"
        /\ ret = <<>>
        /\ ErrorDbs = dbs

C7_NoScanAfterEnumFailure ==
    (op \in Scans /\ enumFailed) =>
        /\ stmts = <<>>
        /\ results = <<>>
        /\ pc \notin {"use", "query", "reset", "except", "raised"}
        /\ pc = "done" => ret = <<>>

\* The scan has returned after a failed enumeration, its connection intact.
C7_Witness == op \in Scans /\ enumFailed /\ pc = "done" /\ conn # 0

\* ---- C8 ----------------------------------------------------------------
\* C8: when the USE [master] that follows a database's query fails, the
\* scan does not raise; a frame the query returned stays in the results, and
\* a query error already logged stays the one reported for that database.
C8_Claim ==
    op \in Scans =>
        \A k \in 2..Len(stmts) :
            (IsFailedSwitchBack(stmts[k]) /\ stmts[k - 1].sql = "QUERY") =>
                /\ pc # "raised"
                /\ stmts[k - 1].ok =>
                      Frame(stmts[k - 1].db, stmts[k - 1].rows) \in Range(results)
                /\ (~stmts[k - 1].ok /\ pc # "except") =>
                      \E e \in Range(errors) :
                          e.db = stmts[k - 1].db /\ e.e = "query"

\* ---- C9 ----------------------------------------------------------------
\* C9: analyze_execution_plan called with a database name has its
\* connection on master whenever it returns.
C9_Claim ==
    (op = PlanOp /\ database # None /\ conn # 0 /\ pc = "done")
        => ActiveDb = Master

\* ---- C10 ---------------------------------------------------------------
\* C10: the databases a scan switches to are, in order, a prefix of the
\* enumerated list; a USE [master] is issued between two of them; the
\* frames are collected in that order and the returned rows follow the
\* order of the list.
C10_EnumerationOrder ==
    op \in Scans =>
        LET visited == SelectSeq(stmts, IsUserUse)
        IN  /\ Len(visited) <= Len(dbs)
            /\ \A k \in 1..Len(visited) : visited[k].db = dbs[k]
            /\ \A a, b \in 1..Len(stmts) :
                  (a < b /\ IsUserUse(stmts[a]) /\ IsUserUse(stmts[b]))
                     => \E m \in (a + 1)..(b - 1) :
                           stmts[m].sql = "USE" /\ stmts[m].db = Master
            /\ results = OkFrames
            /\ pc = "done" =>
                  /\ ret = Concat(OkFrames)
                  /\ \A a, b \in 1..Len(ret) :
                        a < b => Pos(ret[a].DatabaseName)
                                    <= Pos(ret[b].DatabaseName)

\* A scan has returned rows of two databases.
C10_Witness ==
    /\ op \in Scans
    /\ pc = "done"
    /\ \E a, b \in 1..Len(ret) : ret[a].DatabaseName # ret[b].DatabaseName

\* ---- C11 ---------------------------------------------------------------
\* C11: a Ctrl-C that stops a scan never cuts a database's query short:
\* every query that was started has run to its end.
C11_Claim ==
    (op \in Scans /\ pc = "interrupted") =>
        \A st \in Range(stmts) : st.sql # "QUERY_INTERRUPTED"

C13_FreshEnumeration ==
    op \in Scans =>
        /\ pc \in {"connect", "enum"} =>
              enumCalls = 0 /\ stmts = <<>> /\ dbs = <<>>
        /\ pc \in {"loop", "use", "query", "reset", "except", "done"} =>
              enumCalls = 1
        /\ enumCalls <= 1
        /\ (enumCalls = 1 /\ ~enumFailed) =>
              /\ Range(dbs) = {n \in UserDatabases :
                                  /\ catalog[n].state_desc = "ONLINE"
                                  /\ catalog[n].is_read_only = 0}
              /\ \A a, b \in 1..Len(dbs) : a # b => dbs[a] # dbs[b]

\* The loop starts its second database, still on the one enumeration.
C13_Witness == op \in Scans /\ pc = "use" /\ i = 2 /\ enumCalls = 1

C20_FailureGivesEmpty ==
    op = PlanOp =>
        /\ pc # "raised"
        /\ (pc = "done" /\ errors # <<>>) =>
              planRet = [metrics |-> "empty", diagram |-> ""]
        /\ (pc = "done" /\ planRet.diagram # "") => errors = <<>>

\* The graph step failed and the method has returned.
C20_Witness ==
    /\ op = PlanOp
    /\ pc = "done"
    /\ \E e \in Range(errors) : e.e = "graph"

\* ---- vocabulary of the plan decoding properties -------------------------
NodeStmts == {dot[k] : k \in {j \in 1..Len(dot) : dot[j].kind = "node"}}
EdgePositions == {k \in 1..Len(dot) : dot[k].kind = "edge"}
GraphNodes == {n.id : n \in NodeStmts}
GraphEdges == {<<dot[k].from, dot[k].to>> : k \in EdgePositions}

\* The elements of the node statements, each at its first appearance.
RECURSIVE FirstSeen(_)
FirstSeen(s) ==
    IF s = <<>> THEN <<>>
    ELSE LET r == FirstSeen(SubSeq(s, 1, Len(s) - 1))
             l == s[Len(s)]
         IN  IF l.kind = "node" /\ \A k \in 1..Len(r) : r[k] # l.elem
             THEN Append(r, l.elem) ELSE r

\* The operator directly above operator e (0 when there is none).
OpParent(d, e) ==
    LET above == Ancestors(d.parent, e) \cap RelOps(d)
    IN  IF above = {} THEN 0 ELSE CHOOSE a \in above : \A b \in above : b <= a

\* C15: a showplan document with N RelOp elements decodes to exactly N
\* operator nodes and exactly N metrics rows, both in document
\* (depth-first) order.
C15_Claim ==
    (step = "built" /\ plan.ns) =>
        /\ Len(metrics) = Cardinality(RelOps(plan))
        /\ [k \in 1..Len(metrics) |-> metrics[k].elem] = InOrder(RelOps(plan))
        /\ Cardinality(GraphNodes) = Cardinality(RelOps(plan))
        /\ FirstSeen(dot) = InOrder(RelOps(plan))

\* C16: for a document whose operators the builder finds, the graph has
\* one node per operator and its edges are exactly the pairs (direct
\* parent operator, child operator).
C16_Claim ==
    (step = "built" /\ ~plan.ns) =>
        /\ GraphNodes = {NodeId(plan, e) : e \in RelOps(plan)}
        /\ GraphEdges = {<<NodeId(plan, OpParent(plan, e)), NodeId(plan, e)>> :
                            e \in {c \in RelOps(plan) : OpParent(plan, c) # 0}}

C18_CostTiers ==
    step = "built" =>
        /\ \A n \in NodeStmts :
              /\ n.tier = "high" <=> n.est_cost > HighCost
              /\ n.tier = "medium" <=> (n.est_cost > MediumCost /\ n.est_cost <= HighCost)
              /\ n.tier = "normal" <=> n.est_cost <= MediumCost
        /\ \A n \in NodeStmts :
              /\ n.est_cost = HighCost => n.tier = "medium"
              /\ n.est_cost = HighCost + 1 => n.tier = "high"
              /\ n.est_cost = MediumCost => n.tier = "normal"
              /\ n.est_cost = MediumCost + 1 => n.tier = "medium"

\* A graph holding a node of cost exactly 10, one of cost exactly 1 and
\* one just above 10.
C18_Witness ==
    /\ step = "built"
    /\ \E a, b, c \in NodeStmts :
          /\ a.est_cost = HighCost
          /\ b.est_cost = MediumCost
          /\ c.est_cost = HighCost + 1

\* C19: an operator lacking a numeric attribute is decoded with the value
\* 0 for it, in its metrics row and in its graph node.
C19_Claim ==
    step = "built" =>
        /\ \A k \in 1..Len(metrics) :
              /\ plan.elems[metrics[k].elem].cost = <<>> => metrics[k].EstimatedCost = <<0>>
              /\ plan.elems[metrics[k].elem].rows = <<>> => metrics[k].EstimatedRows = <<0>>
        /\ \A n \in NodeStmts :
              /\ plan.elems[n.elem].cost = <<>> => n.est_cost = 0
              /\ plan.elems[n.elem].rows = <<>> => n.est_rows = 0

\* ---- C24 ---------------------------------------------------------------
IsNodeStmt(st) == st.kind = "node"
IsEdgeStmt(st) == st.kind = "edge"

\* The labels of the node statements of a graph body, in emission order.
Labels(body) ==
    LET q == SelectSeq(body, IsNodeStmt)
    IN  [k \in 1..Len(q) |-> <<q[k].op_type, q[k].est_rows, q[k].est_cost, q[k].tier>>]

C28_Claim ==
    (step = "built" /\ ~plan.ns) =>
        /\ Len(SelectSeq(dot, IsNodeStmt)) = Cardinality(RelOps(plan))
        /\ Len(SelectSeq(dot, IsEdgeStmt))
              = Cardinality({c \in RelOps(plan) : OpParent(plan, c) # 0})

\* ---- C26 ---------------------------------------------------------------
\* C26: every pooled connection that no operation is holding has master
\* as its active database.
C26_Claim ==
    \A c \in 1..NumConns :
        (c # conn \/ pc \in {"idle", "done", "raised", "interrupted"})
            => pool[c] = Master

\* ---- C27 ---------------------------------------------------------------
\* C27: when a scan has returned, every enumerated database either had its
\* frame collected and no error logged, or has an error logged and no row
\* in the returned result.
C27_Claim ==
    (op \in Scans /\ pc = "done" /\ ~enumFailed) =>
        \A d \in Range(dbs) :
            \/ /\ d \in QueriedDbs
               /\ d \notin Range(ErrorDbs)
            \/ /\ d \in Range(ErrorDbs)
               /\ \A r \in Range(ret) : r.DatabaseName # d

\* ---- C21 ---------------------------------------------------------------
\* C21: on an empty metrics table the classifier returns exactly the one
\* finding saying that no analysis was possible, and evaluates none of the
\* four checks.
C21_EmptyTable ==
    (step = "analysed" /\ metrics = <<>>) =>
        /\ analysis = <<[text |-> "Unable to analyze execution plan metrics"]>>
        /\ checks = <<>>

C21_Witness == step = "analysed" /\ metrics = <<>> /\ Len(analysis) = 1

\* ---- C22 ---------------------------------------------------------------
\* The expensive-operator findings of the returned list, in list order.
ExpensiveReported ==
    LET IsExp(f) == f.text = "Expensive operation found"
    IN  SelectSeq(analysis, IsExp)

\* The positions of the rows whose cost is strictly above 1, in row order.
CostlyRows ==
    InOrder({k \in 1..Len(metrics) :
                metrics[k].EstimatedCost # <<>> /\ metrics[k].EstimatedCost[1] > 100})

\* C22: on a non-empty table the classifier reports one expensive-operator
\* finding for each row whose cost is strictly above 1 and none for the
\* others, in row order, naming the operator and the cost with two
\* decimals (cost 15.0 of Hash Match reads "Hash Match", 15.00).
C22_ExpensiveFindings ==
    (step = "analysed" /\ metrics # <<>>) =>
        /\ Len(ExpensiveReported) = Len(CostlyRows)
        /\ \A k \in 1..Len(CostlyRows) :
              LET row == metrics[CostlyRows[k]]
                  c == row.EstimatedCost[1]
              IN  /\ ExpensiveReported[k].Operation = row.Operation
                  /\ ExpensiveReported[k].Cost[1] * 100
                        + ExpensiveReported[k].Cost[2] * 10
                        + ExpensiveReported[k].Cost[3] = c
                  /\ c = 1500 => ExpensiveReported[k].Cost = <<15, 0, 0>>

\* A table with a row of cost exactly 1, one just above and one of 15.0,
\* out of cost order.
C22_Witness ==
    /\ step = "analysed"
    /\ Len(metrics) = 2
    /\ metrics[1].EstimatedCost = <<1500>>
    /\ metrics[2].EstimatedCost = <<101>>
    /\ Len(ExpensiveReported) = 2

\* ---- C23 ---------------------------------------------------------------
\* Position of the first finding with the given text, 0 when absent.
FindingPos(t) ==
    IF \E k \in 1..Len(analysis) : analysis[k].text = t
    THEN CHOOSE k \in 1..Len(analysis) :
            /\ analysis[k].text = t
            /\ \A j \in 1..(k - 1) : analysis[j].text # t
    ELSE 0

CountOf(t) == Cardinality({k \in 1..Len(analysis) : analysis[k].text = t})

\* C23: the returned list holds the expensive-operator findings first,
\* then at most one missing-statistics finding, then at most one
\* parallelism finding, then at most one large-row finding; a summary
\* finding is present exactly when some row qualifies.
C23_FindingOrder ==
    (step = "analysed" /\ metrics # <<>>) =>
        LET nExp == Len(ExpensiveReported)
            ms == FindingPos("Missing statistics detected")
            par == FindingPos("Query uses parallel execution")
            big == FindingPos("Large number of rows being processed")
            anyMs == \E k \in 1..Len(metrics) : metrics[k].MissingStats # "None"
            anyPar == \E k \in 1..Len(metrics) :
                        metrics[k].ParallelCost # <<>> /\ metrics[k].ParallelCost[1] > 0
            anyBig == \E k \in 1..Len(metrics) :
                        metrics[k].EstimatedRows # <<>> /\ metrics[k].EstimatedRows[1] > 10000
            B(b) == IF b THEN 1 ELSE 0
        IN  /\ \A k \in 1..nExp : analysis[k].text = "Expensive operation found"
            /\ CountOf("Missing statistics detected") = B(anyMs)
            /\ CountOf("Query uses parallel execution") = B(anyPar)
            /\ CountOf("Large number of rows being processed") = B(anyBig)
            /\ Len(analysis) = nExp + B(anyMs) + B(anyPar) + B(anyBig)
            /\ anyMs => ms = nExp + 1
            /\ anyPar => par = nExp + B(anyMs) + 1
            /\ anyBig => big = nExp + B(anyMs) + B(anyPar) + 1

\* Two rows qualify for every check: each summary finding appears once,
\* after the two expensive-operator findings.
C23_Witness ==
    /\ step = "analysed"
    /\ Len(metrics) = 2
    /\ \A k \in 1..2 :
          /\ metrics[k].MissingStats # "None"
          /\ metrics[k].ParallelCost = <<5>>
          /\ metrics[k].EstimatedRows = <<10001>>
          /\ metrics[k].EstimatedCost = <<1500>>
    /\ Len(analysis) = 5

\* ---- C29 ---------------------------------------------------------------
\* C29: for every operator that has a metrics row with a cost, and whose
\* plan element carries that cost, the classifier reports it as expensive
\* exactly when the graph holds a node for it annotated medium or high.
C29_Claim ==
    step = "built" =>
        \A k \in 1..Len(metrics) :
            (metrics[k].EstimatedCost # <<>> /\ plan.elems[metrics[k].elem].cost # <<>>) =>
                (IsExpensive(metrics[k])
                 <=> (\E n \in NodeStmts :
                        n.elem = metrics[k].elem /\ n.tier \in {"medium", "high"}))

\* ---- C25 ---------------------------------------------------------------
\* C25: when the sweep has returned, its list holds one entry per row of
\* the plan-cache query, in row order; the entry of a query whose plan
\* could not be obtained or decoded has empty metrics, an empty diagram
\* path and the single finding saying that no analysis was possible.
C25_SweepContinues ==
    (op = SweepOp /\ pc = "done") =>
        /\ Len(ret) = Len(expensive_queries)
        /\ \A k \in 1..Len(ret) :
              /\ ret[k].query_text = expensive_queries[k].query_text
              /\ (\/ ret[k].plan_diagram = ""
                  \/ \E e \in Range(errors) : e.db = ret[k].query_text)
                    => /\ ret[k].metrics = <<>>
                       /\ ret[k].plan_diagram = ""
                       /\ ret[k].analysis =
                            <<[text |-> "Unable to analyze execution plan metrics"]>>

\* The plan of the first of two queries failed and the second was analysed.
C25_Witness ==
    /\ op = SweepOp
    /\ pc = "done"
    /\ Len(ret) = 2
    /\ \E e \in Range(errors) : e.db = ret[1].query_text
    /\ ret[2].plan_diagram # ""
    /\ ret[2].metrics # <<>>

\* ---- C30 ---------------------------------------------------------------
\* C30: the report prints its sections in the one fixed order, a section
\* whose method failed prints nothing, and whatever fails the report
\* neither raises nor skips a later section: it ends after the last one.
C30_Claim ==
    op = ReportOp =>
        /\ pc # "raised"
        /\ \A a, b \in 1..Len(report) :
              a < b => \E x, y \in 1..Len(Sections) :
                          x < y /\ Sections[x] = report[a] /\ Sections[y] = report[b]
        /\ \A e \in Range(errors) : e.op \notin Range(report)
        /\ pc = "done" => i = Len(Sections) + 1

====
